---- MODULE Spec2Model ----
(***************************************************************************)
(* Growbox actuator arbitration: the control loop (llm.py), the manual     *)
(* fan/light endpoint with its auto-release threads and the pump endpoint  *)
(* (main.py), over the shared dictionaries of shared_state.py.             *)
(*                                                                         *)
(* Threads interleave at statement granularity (CPython runs one bytecode  *)
(* stream at a time, single dict operations are atomic).  The handlers of  *)
(* main.py are "async def" without an await inside, so they run one after  *)
(* the other on the event loop but interleave with the worker threads.     *)
(***************************************************************************)
EXTENDS Integers, FiniteSets, Sequences, TLC

\* ------------------------------------------------------------------ bounds
MaxTime == 2        \* the clock runs 0..MaxTime (one unit = one minute)
MaxManual == 2      \* manual fan/light requests accepted in one behaviour
MaxFew == 1         \* the same, where one request shows the case
MaxRuns == 2        \* pump threads alive at the same time

\* --------------------------------------------------------------- constants
Inf == -1           \* float("inf"): an expiry that is never reached

Continuous == {"fan", "light"}
Required == {"fan", "light", "pump"}
DevOrder == <<"fan", "light">>

EmptyDict == [k \in {} |-> "off"]

\* shared_state.py: the two module-level dictionaries
InitLastDecision == [k \in Required |-> "off"]
InitManualLock == EmptyDict

VARIABLES
    last_decision,  \* shared_state.last_decision
    manual_lock,    \* shared_state.manual_lock: dev -> [state, expiry]
    now,            \* time.time(), in minutes
    tick,           \* the control-loop thread: position and locals
    req,            \* the manual request being handled by toggle_device
    releases,       \* the _auto_release threads that are alive
    runs,           \* the pump threads that are alive, by kind and position
    gen,            \* history: manual requests accepted so far
    latest,         \* history: per device, the lock its last request set
    ws,             \* the ws_actuators handler of one subscriber
    power           \* history: per device, what the last effector call asked

vars == <<last_decision, manual_lock, now, tick, req, releases, runs, gen,
          latest, ws, power>>

\* ------------------------------------------------------------------ helpers
\* now <= expiry: the comparison of line 112 made inclusive
BeforeInclusive(t, e) == e = Inf \/ t <= e

\* now < expiry, with float("inf") above every time
Before(t, e) == e = Inf \/ t < e

\* now >= expiry
NotBefore(t, e) == ~Before(t, e)

\* dict.update(other)
DictUpdate(d, o) ==
    [k \in (DOMAIN d) \cup (DOMAIN o) |-> IF k \in DOMAIN o THEN o[k] ELSE d[k]]

\* d[k] = v
DictSet(d, k, v) ==
    [x \in (DOMAIN d) \cup {k} |-> IF x = k THEN v ELSE d[x]]

\* dict.pop(k, None)
DictPop(d, k) == [x \in (DOMAIN d) \ {k} |-> d[x]]

\* manual_lock.get(dev, (None, 0))
LockGet(dev) ==
    IF dev \in DOMAIN manual_lock THEN manual_lock[dev]
    ELSE [state |-> "none", expiry |-> 0]

\* llm.py line 112: locked_state and now < expiry
LockActive(lk, t) == lk.state # "none" /\ Before(t, lk.expiry)

\* the key check of line 102 with any() in place of all()
HasAllKeysAny(decision) == \E k \in Required : k \in DOMAIN decision

\* llm.py line 102: all(k in decision for k in ("fan", "light", "pump"))
HasAllKeys(decision) == \A k \in Required : k \in DOMAIN decision

\* the conditional of line 116 with its branches swapped
PowerArgFlipped(v) == IF v = "on" THEN "Off" ELSE "On"

\* llm.py line 116: "On" if decision[dev] == "on" else "Off"
PowerArg(v) == IF v = "on" THEN "On" ELSE "Off"

\* str.capitalize() on the lower-cased action or state
Capitalize(s) ==
    CASE s = "on" -> "On"
      [] s = "off" -> "Off"
      [] s = "toggle" -> "Toggle"
      [] OTHER -> s

\* tasmota.py line 36: the state "Power <cmd>" asks of a device in state s
CmdState(s, c) ==
    CASE c = "On" -> "on"
      [] c = "Off" -> "off"
      [] c = "Toggle" -> (IF s = "on" THEN "off" ELSE "on")
      [] OTHER -> s

\* The history "power" after the call tas_cmd(dev, c).  It is kept for the
\* devices in its domain: empty where no claim looks at it.
Issued(p, dev, c) ==
    IF dev \in DOMAIN p THEN [p EXCEPT ![dev] = CmdState(p[dev], c)] ELSE p

\* what tasmota.cmd can do: answer, return {"error": ...}, or raise
TasOutcomes == {"ok", "error", "raise"}

\* ---------------------------------------------------------------- initial
\* The field "sent" of a thread is history: the power_cmd of the call of
\* tasmota.cmd it has just made for its device, "none" before the call.
TickIdle(bad) ==
    [pc |-> "sleep", decision |-> EmptyDict, final |-> EmptyDict, tnow |-> 0,
     i |-> 0, expiry |-> 0, sent |-> "none", bad |-> bad]

\* The field "reply" is history: "rejected" once the handler has turned
\* the request down, until the next request arrives.
ReqIdle ==
    [pc |-> "idle", dev |-> "none", action |-> "none", duration |-> 0,
     sent |-> "none", reply |-> "none"]

\* No subscriber is connected.  A snapshot is kept as a sequence of length
\* one, None as the empty sequence.  "out" is history: the last message that
\* went to the subscriber; "held" is history: the last poll sent nothing.
WsClosed ==
    [pc |-> "closed", state |-> <<>>, last_sent |-> <<>>, out |-> <<>>,
     held |-> FALSE]

RunKinds == {"auto", "manual"}
RunPcs == {"start", "blink"}

Init ==
    /\ last_decision = InitLastDecision
    /\ manual_lock = InitManualLock
    /\ now = 0
    /\ tick = TickIdle(FALSE)
    /\ req = ReqIdle
    /\ releases = {}
    /\ runs = [k \in RunKinds |-> [p \in RunPcs |-> 0]]
    /\ gen = 0
    /\ latest = [d \in Continuous |-> [state |-> "none", expiry |-> 0, gen |-> 0]]
    /\ ws = WsClosed
    /\ power = EmptyDict

\* time passes
Advance ==
    /\ now < MaxTime
    /\ now' = now + 1
    /\ UNCHANGED <<last_decision, manual_lock, tick, req, releases, runs,
                   gen, latest, ws, power>>

\* --------------------------------------------------- control loop (llm.py)
\* the device of the current iteration of "for dev in ('fan', 'light')"
TickDev == DevOrder[tick.i]

\* the next iteration of the for loop, or the pump block after the last
TickNextDev(t) ==
    IF t.i < Len(DevOrder)
    THEN [t EXCEPT !.pc = "check", !.i = t.i + 1, !.expiry = 0,
                   !.sent = "none"]
    ELSE [t EXCEPT !.pc = "pump", !.i = 0, !.expiry = 0, !.sent = "none"]

\* an uncaught exception ends run_control_loop: there is no try around a tick
TickDead(t) == [TickIdle(t.bad) EXCEPT !.pc = "dead"]

\* run_control_loop line 142: readings = get_sensor_readings()
TickSensors(Faulty) ==
    /\ tick.pc = "sleep"
    /\ \E ok \in {TRUE} \cup {~Faulty} :
         tick' = IF ok THEN [TickIdle(tick.bad) EXCEPT !.pc = "llm"]
                 ELSE TickDead(tick)
    /\ UNCHANGED <<last_decision, manual_lock, now, req, releases, runs,
                   gen, latest, ws, power>>

\* line 94: llm.invoke raises (network, timeout) and nothing catches it
OracleRaises ==
    tick' = TickDead([tick EXCEPT !.bad = TRUE])

\* lines 96-100: json.loads fails, the tick returns last_decision
OracleGarbage ==
    tick' = TickIdle(TRUE)

\* lines 102-107: the key check, then final_decision and now are set
OracleJson(r) ==
    tick' = IF ~HasAllKeys(r)
            THEN TickIdle(~(Required \subseteq DOMAIN r))
            ELSE [tick EXCEPT !.pc = "check", !.decision = r, !.final = r,
                              !.tnow = now, !.i = 1,
                              !.bad = ~(Required \subseteq DOMAIN r)]

\* decide_actuators lines 94-107: the oracle call, the parse, the key check
TickOracle(Responses, Faulty) ==
    /\ tick.pc = "llm"
    /\ \/ Faulty /\ OracleRaises
       \/ Faulty /\ OracleGarbage
       \/ \E r \in Responses : OracleJson(r)
    /\ UNCHANGED <<last_decision, manual_lock, now, req, releases, runs,
                   gen, latest, ws, power>>

\* lines 111-114: read the lock; an active one wins and the device is skipped
TickCheck ==
    /\ tick.pc = "check"
    /\ LET lk == LockGet(TickDev)
       IN tick' = IF LockActive(lk, tick.tnow)
                  THEN TickNextDev([tick EXCEPT !.final =
                                       DictSet(tick.final, TickDev, lk.state)])
                  ELSE [tick EXCEPT !.pc = "tas", !.expiry = lk.expiry]
    /\ UNCHANGED <<last_decision, manual_lock, now, req, releases, runs,
                   gen, latest, ws, power>>

\* line 116: tas_cmd(dev, "On" if decision[dev] == "on" else "Off")
TickTas ==
    /\ tick.pc = "tas"
    /\ IF TickDev \notin DOMAIN tick.decision
       THEN /\ tick' = TickDead(tick)          \* KeyError
            /\ UNCHANGED power
       ELSE \E res \in TasOutcomes :
            LET c == PowerArg(tick.decision[TickDev])
            IN /\ tick' = IF res = "raise"
                          THEN [TickDead(tick) EXCEPT !.i = tick.i, !.sent = c]
                          ELSE [tick EXCEPT !.pc = "pop", !.sent = c]
               /\ power' = Issued(power, TickDev, c)
    /\ UNCHANGED <<last_decision, manual_lock, now, req, releases, runs,
                   gen, latest, ws>>

\* lines 118-119: if dev in manual_lock and now >= expiry: pop
TickPop ==
    /\ tick.pc = "pop"
    /\ manual_lock' =
         IF TickDev \in DOMAIN manual_lock /\ NotBefore(tick.tnow, tick.expiry)
         THEN DictPop(manual_lock, TickDev)
         ELSE manual_lock
    /\ tick' = TickNextDev(tick)
    /\ UNCHANGED <<last_decision, now, req, releases, runs, gen, latest, ws, power>>

RunCount == runs["auto"]["start"] + runs["auto"]["blink"]
            + runs["manual"]["start"] + runs["manual"]["blink"]

\* threading.Thread(target=..., daemon=True).start()
Spawn(kind) == [runs EXCEPT ![kind]["start"] = @ + 1]

\* lines 122-126: start a pump thread, or note "off"
TickPump ==
    /\ tick.pc = "pump"
    /\ IF "pump" \notin DOMAIN tick.decision
       THEN /\ tick' = TickDead(tick)          \* KeyError
            /\ UNCHANGED runs
       ELSE IF tick.decision["pump"] = "on" /\ last_decision["pump"] # "on"
       THEN /\ RunCount < MaxRuns
            /\ runs' = Spawn("auto")
            /\ tick' = [tick EXCEPT !.pc = "update",
                                    !.final = DictSet(tick.final, "pump", "on")]
       ELSE /\ tick' = [tick EXCEPT
                          !.pc = "update",
                          !.final = IF tick.decision["pump"] = "off"
                                    THEN DictSet(tick.final, "pump", "off")
                                    ELSE tick.final]
            /\ UNCHANGED runs
    /\ UNCHANGED <<last_decision, manual_lock, now, req, releases, gen,
                   latest, ws, power>>

\* line 129: last_decision.update(final_decision); then time.sleep(interval)
TickUpdate ==
    /\ tick.pc = "update"
    /\ last_decision' = DictUpdate(last_decision, tick.final)
    /\ tick' = TickIdle(tick.bad)
    /\ UNCHANGED <<manual_lock, now, req, releases, runs, gen, latest, ws, power>>

\* one step of the control-loop thread
TickStep(Responses, Faulty) ==
    \/ TickSensors(Faulty)
    \/ TickOracle(Responses, Faulty)
    \/ TickCheck
    \/ TickTas
    \/ TickPop
    \/ TickPump
    \/ TickUpdate

\* ------------------------------------------- manual fan/light (main.py)
\* the test of line 105 letting one more action through
ActionsAny == {"on", "off", "toggle", "blink"}

\* line 105: action not in ("on", "off", "toggle")
Actions == {"on", "off", "toggle"}

\* the "duration" of a request, in minutes: absent or 0, or one minute
Durations == {0, 1}

\* main.py line 123: "off" if state == "on" else "on"
Opposite(state) == IF state = "on" THEN "off" ELSE "on"

\* main.py line 114: state = "on" if power_cmd == "On" else "off"
ReqState(action) == IF Capitalize(action) = "On" THEN "on" ELSE "off"

\* main.py line 117: float("inf") if duration == 0 else time.time() + duration * 60
ReqExpiry(duration, t) == IF duration = 0 THEN Inf ELSE t + duration

\* a request POST /actuators/{dev}/{action} reaches toggle_device
ReqArrive(Devs, Acts, Durs, Max) ==
    /\ req.pc = "idle"
    /\ gen < Max
    /\ gen' = gen + 1
    /\ \E dev \in Devs, action \in Acts, duration \in Durs :
         req' = [pc |-> "call", dev |-> dev, action |-> action,
                 duration |-> duration, sent |-> "none", reply |-> "none"]
    /\ UNCHANGED <<last_decision, manual_lock, now, tick, releases, runs,
                   latest, ws, power>>

\* lines 104-111: an unknown action is answered with an error; else
\* result = tas_cmd(dev, power_cmd), and tasmota.cmd raises ValueError for
\* a device without an address
ReqTas ==
    /\ req.pc = "call"
    /\ IF req.action \notin Actions \/ req.dev \notin Continuous
       THEN /\ req' = [ReqIdle EXCEPT !.reply = "rejected"]
            /\ UNCHANGED power
       ELSE /\ \E res \in TasOutcomes :
              req' = IF res = "raise" THEN ReqIdle
                     ELSE [req EXCEPT !.pc = "store",
                                      !.sent = Capitalize(req.action)]
            /\ power' = Issued(power, req.dev, Capitalize(req.action))
    /\ UNCHANGED <<last_decision, manual_lock, now, tick, releases, runs,
                   gen, latest, ws>>

\* lines 113-115: last_decision[dev] = state
ReqStore ==
    /\ req.pc = "store"
    /\ last_decision' = DictSet(last_decision, req.dev, ReqState(req.action))
    /\ req' = [req EXCEPT !.pc = "lock"]
    /\ UNCHANGED <<manual_lock, now, tick, releases, runs, gen, latest, ws, power>>

\* the thread started at lines 120-125; it sleeps for the duration first
NewRelease(dev, state, duration) ==
    [dev |-> dev, desired |-> Opposite(state), fireAt |-> now + duration,
     gen |-> gen, pc |-> "sleep", sent |-> "none"]

\* lines 117-127: set the lock, start the release thread, return
ReqLock ==
    /\ req.pc = "lock"
    /\ LET state == ReqState(req.action)
           lk == [state |-> state, expiry |-> ReqExpiry(req.duration, now)]
       IN /\ manual_lock' = DictSet(manual_lock, req.dev, lk)
          /\ releases' = IF req.duration > 0
                         THEN releases \cup
                              {NewRelease(req.dev, state, req.duration)}
                         ELSE releases
          /\ latest' = [latest EXCEPT ![req.dev] =
                          [state |-> state, expiry |-> lk.expiry, gen |-> gen]]
    /\ req' = ReqIdle
    /\ UNCHANGED <<last_decision, now, tick, runs, gen, ws, power>>

\* one step of the request handler
ReqStep(Devs, Acts, Durs, Max) ==
    \/ ReqArrive(Devs, Acts, Durs, Max)
    \/ ReqTas
    \/ ReqStore
    \/ ReqLock

\* ------------------------------------------------ _auto_release (main.py)
\* lines 87-88: time.sleep(minutes * 60) is over; tas_cmd(dev, desired.capitalize())
RelFire(r) ==
    /\ r.pc = "sleep"
    /\ now >= r.fireAt
    /\ \E res \in TasOutcomes :
         releases' = IF res = "raise" THEN releases \ {r}
                     ELSE (releases \ {r}) \cup
                          {[r EXCEPT !.pc = "pop",
                                     !.sent = Capitalize(r.desired)]}
    /\ power' = Issued(power, r.dev, Capitalize(r.desired))
    /\ UNCHANGED <<last_decision, manual_lock, now, tick, req, runs, gen,
                   latest, ws>>

\* line 89: manual_lock.pop(dev, None)
RelPop(r) ==
    /\ r.pc = "pop"
    /\ manual_lock' = DictPop(manual_lock, r.dev)
    /\ releases' = (releases \ {r}) \cup {[r EXCEPT !.pc = "set"]}
    /\ UNCHANGED <<last_decision, now, tick, req, runs, gen, latest, ws, power>>

\* line 90: last_decision[dev] = desired
RelSet(r) ==
    /\ r.pc = "set"
    /\ last_decision' = DictSet(last_decision, r.dev, r.desired)
    /\ releases' = releases \ {r}
    /\ UNCHANGED <<manual_lock, now, tick, req, runs, gen, latest, ws, power>>

\* one step of one release thread
RelStep ==
    \E r \in releases : RelFire(r) \/ RelPop(r) \/ RelSet(r)

\* ------------------------------------------------------------ pump threads
\* water_pump lines 130-147: start a thread running _run, answer at once
WaterPump ==
    /\ RunCount < MaxRuns
    /\ runs' = Spawn("manual")
    /\ UNCHANGED <<last_decision, manual_lock, now, tick, req, releases,
                   gen, latest, ws, power>>

\* _run_pump line 76, _run line 139: last_decision["pump"] = "on"
RunBegin(kind) ==
    /\ runs[kind]["start"] > 0
    /\ runs' = [runs EXCEPT ![kind]["start"] = @ - 1, ![kind]["blink"] = @ + 1]
    /\ last_decision' = DictSet(last_decision, "pump", "on")
    /\ UNCHANGED <<manual_lock, now, tick, req, releases, gen, latest, ws, power>>

\* blink_led returns or raises.  _run resets the state in its finally block;
\* _run_pump line 78 is reached only when blink_led returned
RunEnd(kind) ==
    /\ runs[kind]["blink"] > 0
    /\ runs' = [runs EXCEPT ![kind]["blink"] = @ - 1]
    /\ \E ok \in BOOLEAN :
         last_decision' = IF ok \/ kind = "manual"
                          THEN DictSet(last_decision, "pump", "off")
                          ELSE last_decision
    /\ UNCHANGED <<manual_lock, now, tick, req, releases, gen, latest, ws, power>>

\* one step of one pump thread
RunStep ==
    \E kind \in RunKinds : RunBegin(kind) \/ RunEnd(kind)

\* ------------------------------------------------ ws_actuators (main.py)
\* the comparison of line 183 replaced by False
DiffersNever(state, last_sent) == FALSE

\* the comparison of line 183 replaced by True
DiffersAlways(state, last_sent) == TRUE

\* line 183: state != last_sent
Differs(state, last_sent) == state # last_sent

\* lines 178-179: await websocket.accept(); last_sent = None
WsAccept ==
    /\ ws.pc = "closed"
    /\ ws' = [WsClosed EXCEPT !.pc = "poll"]
    /\ UNCHANGED <<last_decision, manual_lock, now, tick, req, releases, runs,
                   gen, latest, power>>

\* lines 182-183: state = last_decision.copy(); if state != last_sent
WsPoll ==
    /\ ws.pc = "poll"
    /\ LET state == <<last_decision>>
       IN ws' = IF Differs(state, ws.last_sent)
                THEN [ws EXCEPT !.pc = "send", !.state = state,
                                !.held = FALSE]
                ELSE [ws EXCEPT !.pc = "sleep", !.state = state,
                                !.held = TRUE]
    /\ UNCHANGED <<last_decision, manual_lock, now, tick, req, releases, runs,
                   gen, latest, power>>

\* lines 184-185: await websocket.send_json(state); last_sent = state.
\* When the subscriber has gone the send raises and the handler ends.
WsSend ==
    /\ ws.pc = "send"
    /\ \E gone \in BOOLEAN :
         ws' = IF gone THEN WsClosed
               ELSE [ws EXCEPT !.pc = "sleep", !.out = ws.state,
                               !.last_sent = ws.state]
    /\ UNCHANGED <<last_decision, manual_lock, now, tick, req, releases, runs,
                   gen, latest, power>>

\* line 186: await asyncio.sleep(0.2), then the next round of the loop
WsSleep ==
    /\ ws.pc = "sleep"
    /\ ws' = [ws EXCEPT !.pc = "poll"]
    /\ UNCHANGED <<last_decision, manual_lock, now, tick, req, releases, runs,
                   gen, latest, power>>

\* one step of the subscriber's handler
WsStep ==
    \/ WsAccept
    \/ WsPoll
    \/ WsSend
    \/ WsSleep

\* ------------------------------------------------------------ oracle answers
\* the answers the prompt asks for: every key, each "on" or "off"
Decisions == [Required -> {"on", "off"}]

\* answers that fail the key check of line 102
Incomplete == {[fan |-> "on"], [fan |-> "on", light |-> "on"],
               [light |-> "off", pump |-> "on"], EmptyDict}

\* answers that pass the key check of line 102 but have a key more, or a
\* value that is neither "on" nor "off"
Unruly ==
    {[fan |-> "on", light |-> "off", pump |-> "off", heater |-> "on"],
     [fan |-> "auto", light |-> "on", pump |-> "off"],
     [fan |-> "off", light |-> "off", pump |-> "low"]}

ReqDevs == {"fan", "light", "heater"}
ReqActs == {"on", "off", "toggle", "blink"}

\* --------------------------------------------------------- specifications
Next ==
    \/ TickStep(Decisions \cup Incomplete \cup Unruly, TRUE)
    \/ ReqStep(ReqDevs, ReqActs, Durations, MaxManual)
    \/ RelStep
    \/ WaterPump
    \/ RunStep
    \/ Advance
    \/ WsStep

Spec == Init /\ [][Next]_vars

\* The arbitration of fan and light against manual requests: the oracle
\* leaves the pump off, nobody waters.
OverrideDecisions == {d \in Decisions : d["pump"] = "off"}

NextOverride ==
    \/ TickStep(OverrideDecisions, FALSE)
    \/ ReqStep(Continuous, Actions, Durations, MaxManual)
    \/ RelStep
    \/ Advance

SpecOverride == Init /\ [][NextOverride]_vars

\* The same with fewer manual requests, each "on" or "off".
NextArbitrate ==
    \/ TickStep(OverrideDecisions, FALSE)
    \/ ReqStep(Continuous, {"on", "off"}, Durations, MaxFew)
    \/ RelStep
    \/ Advance

SpecArbitrate == Init /\ [][NextArbitrate]_vars

\* The pump: the oracle leaves fan and light off, nobody sends a manual
\* fan/light request.
PumpDecisions == {d \in Decisions : d["fan"] = "off" /\ d["light"] = "off"}

NextPump ==
    \/ TickStep(PumpDecisions, FALSE)
    \/ WaterPump
    \/ RunStep

SpecPump == Init /\ [][NextPump]_vars

\* The control loop under every oracle answer and every failure, beside
\* manual requests that switch the fan on for good.
NextLoop ==
    \/ TickStep(Decisions \cup Incomplete, TRUE)
    \/ RunStep
    \/ ReqStep({"fan"}, {"on"}, {0}, MaxFew)

SpecLoop == Init /\ [][NextLoop]_vars

\* One subscriber of the state stream, beside manual fan requests and the
\* pump threads of water_pump as writers of the store.
NextPublish ==
    \/ WsStep
    \/ ReqStep({"fan"}, {"on", "off"}, {0}, MaxManual)
    \/ WaterPump
    \/ RunStep

SpecPublish == Init /\ [][NextPublish]_vars

\* The same, the handler of the subscriber being scheduled again and again:
\* the event loop resumes it after each await (accept, send_json, sleep).
SpecConverge == SpecPublish /\ WF_vars(WsStep)

\* Manual requests for known and unknown devices with known and unknown
\* actions, beside the release threads.
NextValidate ==
    \/ ReqStep(ReqDevs, ReqActs, Durations, MaxManual)
    \/ RelStep
    \/ Advance

SpecValidate == Init /\ [][NextValidate]_vars

\* The control loop and the pump threads under every answer that passes
\* the key check.
NextDomain ==
    \/ TickStep(Decisions \cup Unruly, FALSE)
    \/ WaterPump
    \/ RunStep

SpecDomain == Init /\ [][NextDomain]_vars

\* The arbitration of SpecArbitrate, every manual request "on" or "off",
\* with the history of the effector calls kept for the fan and the light.
InitAgree ==
    /\ last_decision = InitLastDecision
    /\ manual_lock = InitManualLock
    /\ now = 0
    /\ tick = TickIdle(FALSE)
    /\ req = ReqIdle
    /\ releases = {}
    /\ runs = [k \in RunKinds |-> [p \in RunPcs |-> 0]]
    /\ gen = 0
    /\ latest = [d \in Continuous |-> [state |-> "none", expiry |-> 0, gen |-> 0]]
    /\ ws = WsClosed
    /\ power = [d \in Continuous |-> "off"]

SpecAgree == InitAgree /\ [][NextArbitrate]_vars

\* ==================================================================== claims
\* the pump threads that are executing blink_led
Blinking == runs["auto"]["blink"] + runs["manual"]["blink"]

\* the manual request handler is working on device d
ReqBusyOn(d) == req.pc # "idle" /\ req.dev = d

\* C1 (override precedence, as claimed): whenever the tick calls the
\* effector for a device that holds, at that moment, a lock that is set and
\* not expired, the command it sends is the one of the locked state.
C1_OverridePrecedence ==
    [][(tick.pc = "tas" /\ tick'.sent # "none") =>
         LET lk == LockGet(TickDev)
         IN (lk.state # "none" /\ (lk.expiry = Inf \/ now < lk.expiry))
              => tick'.sent = Capitalize(lk.state)]_vars

\* C2 (supersession safety, as claimed): a step of a release thread whose
\* device has since got a lock from a later request leaves the stored state
\* of the device and the lock map alone and sends no effector command.
C2_SupersessionSafety ==
    [][\A r \in releases :
         (latest[r.dev].gen > r.gen /\ r \notin releases') =>
           /\ last_decision'[r.dev] = last_decision[r.dev]
           /\ manual_lock' = manual_lock
           /\ \A q \in releases' : q.gen = r.gen => q.sent = r.sent]_vars

\* C3 (momentary exclusivity, as claimed): at most one thread executes
\* blink_led at any instant.
C3_MomentaryExclusivity == Blinking <= 1

\* C4 (pump state/run consistency, as claimed): the stored pump state is
\* "on" only while a pump thread is alive, and it is "on" whenever a thread
\* executes blink_led.
C4_PumpStateConsistent ==
    /\ last_decision["pump"] = "on" => RunCount > 0
    /\ Blinking > 0 => last_decision["pump"] = "on"

\* C5 (fail-safe hold): every step the control loop takes while the last
\* oracle answer is a failure, unparseable, or lacks one of fan, light, pump
\* leaves the store, the lock map and the threads as they are and sends no
\* effector command; the loop only returns to its sleep (or ends).
C5_FailSafeHold ==
    [][(tick' # tick /\ tick'.bad) =>
         /\ UNCHANGED <<last_decision, manual_lock, runs, releases>>
         /\ tick'.sent = "none"
         /\ tick'.pc \in {"sleep", "llm", "dead"}]_vars

\* a tick held the state while the light was on and the fan locked
C5_Witness ==
    /\ tick.pc = "sleep" /\ tick.bad
    /\ last_decision["light"] = "on"
    /\ "fan" \in DOMAIN manual_lock

C7_ExpiryCorrectness ==
    [][\A d \in Continuous :
         (/\ tick.pc = "check" /\ TickDev = d /\ tick' # tick
          /\ d \in DOMAIN manual_lock
          /\ manual_lock[d].expiry # Inf
          /\ manual_lock[d].expiry <= tick.tnow) =>
           /\ tick'.pc = "tas"
           /\ tick'.final = tick.final
           /\ tick'.final[d] = tick.decision[d]]_vars

\* the tick commands a device whose expired lock is still in the map, its
\* release thread still asleep
C7_Witness ==
    /\ tick.pc = "tas"
    /\ TickDev \in DOMAIN manual_lock
    /\ manual_lock[TickDev].expiry # Inf
    /\ manual_lock[TickDev].expiry <= tick.tnow
    /\ \E r \in releases : /\ r.dev = TickDev /\ r.pc = "sleep"
                           /\ r.gen = latest[TickDev].gen

\* C8 (timed override lifecycle, as claimed): while the last request for a
\* device is a timed one, a tick that arbitrates the device before the
\* expiry (by its own time and by the clock) keeps the locked state and
\* sends nothing; the release thread of
\* that request commands and stores the opposite state and clears the lock.
C8_TimedLifecycle ==
    [][/\ \A d \in Continuous :
            (/\ tick.pc = "check" /\ TickDev = d /\ tick' # tick
             /\ latest[d].gen > 0 /\ latest[d].expiry # Inf
             /\ tick.tnow < latest[d].expiry /\ now < latest[d].expiry
             /\ ~ReqBusyOn(d)) =>
              /\ tick'.pc # "tas"
              /\ tick'.final[d] = latest[d].state
       /\ \A r \in releases :
            (/\ r.gen = latest[r.dev].gen /\ ~ReqBusyOn(r.dev)
             /\ r.pc = "set" /\ r \notin releases') =>
              /\ r.sent = Capitalize(Opposite(latest[r.dev].state))
              /\ last_decision'[r.dev] = Opposite(latest[r.dev].state)
              /\ r.dev \notin DOMAIN manual_lock']_vars

\* C9 (indefinite override, as claimed): a lock that never expires stays in
\* the lock map unchanged, and the tick sends no command for its device,
\* as long as no further manual request for the device is being handled.
C9_IndefiniteOverride ==
    [][\A d \in Continuous :
         (/\ d \in DOMAIN manual_lock
          /\ manual_lock[d].expiry = Inf
          /\ ~ReqBusyOn(d)) =>
           /\ d \in DOMAIN manual_lock'
           /\ manual_lock'[d] = manual_lock[d]
           /\ (tick.pc = "check" /\ TickDev = d) => tick'.pc # "tas"]_vars

\* C10 (control-loop liveness, as claimed): no failure of a tick ends
\* run_control_loop.
C10_LoopNeverEnds == tick.pc # "dead"

\* C11 (driver-failure cleanup, as claimed): every pump thread that ends,
\* started by the tick or by water_pump, blink_led failed or not, leaves the
\* stored pump state "off"; and when the last thread has ended the stored
\* pump state is not "on".
C11_DriverFailureCleanup ==
    [][\A kind \in RunKinds :
         runs'[kind]["blink"] < runs[kind]["blink"] =>
           /\ last_decision'["pump"] = "off"
           /\ RunCount' = 0 => last_decision'["pump"] # "on"]_vars


\* C12 (publisher diff-suppression): a poll copies the whole store; it leads
\* to a message exactly when the copy differs from the last message sent,
\* and always when nothing was sent before; a message is the copy of its
\* poll and differs from the message before it; nothing else is a message.
C12_DiffSuppression ==
    [][/\ (ws.pc = "poll" /\ ws' # ws) =>
            /\ ws'.state = <<last_decision>>
            /\ DOMAIN ws'.state[1] = DOMAIN last_decision
            /\ ws.out = <<>> => ws'.pc = "send"
            /\ ws'.pc = "send" <=> ws.out # <<last_decision>>
       /\ (ws.pc = "send" /\ ws'.pc = "sleep") =>
            /\ ws'.out = ws.state
            /\ ws'.out # ws.out
       /\ ws'.out # ws.out => ws.pc = "send"]_vars

\* the fan was switched on by two manual requests, the subscriber got the
\* store with the fan on, and its last poll sent nothing
C12_Witness ==
    /\ gen = 2 /\ req.pc = "idle"
    /\ ws.pc = "sleep" /\ ws.held
    /\ ws.out = <<last_decision>>
    /\ last_decision["fan"] = "on"

\* C13 (manual-command validation): every step toggle_device takes for a
\* request whose action is not on, off or toggle, or whose device is not fan
\* or light, leaves the store, the lock map and the release threads as they
\* are and sends no effector command; the handler turns the request down.
C13_Validation ==
    [][(/\ req.pc # "idle" /\ req' # req
        /\ \/ req.action \notin {"on", "off", "toggle"}
           \/ req.dev \notin {"fan", "light"}) =>
          /\ UNCHANGED <<last_decision, manual_lock, releases>>
          /\ req'.pc = "idle"
          /\ req'.reply = "rejected"
          /\ req'.sent = "none"]_vars

\* the second request was turned down; the lock and the release thread of
\* the first, which switched the fan on, are as the first left them
C13_Witness ==
    /\ gen = 2 /\ req.pc = "idle" /\ req.reply = "rejected"
    /\ latest["fan"].gen = 1 /\ latest["fan"].state = "on"
    /\ "fan" \in DOMAIN manual_lock /\ manual_lock["fan"].state = "on"
    /\ \E r \in releases : r.gen = 1 /\ r.pc = "sleep"

\* C14 (override dominates automatic writes, as claimed): whenever a fan or
\* light lock is in the map and not expired, and toggle_device is not at
\* work on the device, the stored state of the device is the locked state.
C14_OverrideDominates ==
    \A d \in Continuous :
      (/\ d \in DOMAIN manual_lock
       /\ (manual_lock[d].expiry = Inf \/ now < manual_lock[d].expiry)
       /\ ~ReqBusyOn(d)) =>
        last_decision[d] = manual_lock[d].state

\* C15 (pump "off" is a signal only, as claimed): no step of a tick whose
\* oracle answer has pump "off" changes the stored pump state or the pump
\* threads; the state stays "on" while a thread is in blink_led.
C15_PumpOffSignalOnly ==
    [][(/\ tick' # tick
        /\ "pump" \in DOMAIN tick.decision
        /\ tick.decision["pump"] = "off") =>
          /\ last_decision'["pump"] = last_decision["pump"]
          /\ runs' = runs]_vars

\* C16 (stale release against the automation, as claimed): a release thread
\* that wakes up when the lock of its request, the last one for the device,
\* is no longer in the map (a tick has removed it as expired) ends there: it
\* sends no effector command and goes on to no write of the lock map or of
\* the store.
C16_StaleReleaseNoOp ==
    [][\A r \in releases :
         (/\ r.pc = "sleep" /\ r \notin releases'
          /\ latest[r.dev].gen = r.gen
          /\ r.dev \notin DOMAIN manual_lock) =>
           /\ \A q \in releases' : q.gen = r.gen => q \in releases
           /\ UNCHANGED <<last_decision, manual_lock>>]_vars

\* C17 (pump start on demand, as claimed): a tick that reaches its pump
\* block with the decision "on" while no pump thread is alive starts one,
\* and its effective pump decision is "on".
C17_PumpStartOnDemand ==
    [][(/\ tick.pc = "pump" /\ tick' # tick
        /\ "pump" \in DOMAIN tick.decision
        /\ tick.decision["pump"] = "on"
        /\ RunCount = 0) =>
          /\ RunCount' = 1
          /\ tick'.final["pump"] = "on"]_vars

\* C18 (override removal ownership, as claimed): no step of the control
\* loop removes or changes an entry of the lock map; the map changes only
\* in steps of toggle_device and of the release threads.
C18_TickLeavesLocks ==
    [][tick' # tick => manual_lock' = manual_lock]_vars

\* C19 (per-device failure isolation, as claimed): whatever tasmota.cmd
\* does for the fan or the light, the tick goes on from the call to the
\* rest of its work: the lock test of that device, the next device, the
\* pump block and the update of the store.
C19_FailureIsolation ==
    [][(/\ tick.pc = "tas" /\ tick' # tick
        /\ TickDev \in DOMAIN tick.decision) =>
          tick'.pc = "pop"]_vars

\* C20 (store domain invariant, as claimed): the store holds the keys fan,
\* light and pump and no other, each with the value "on" or "off".
C20_StoreDomain ==
    /\ DOMAIN last_decision = {"fan", "light", "pump"}
    /\ \A k \in DOMAIN last_decision : last_decision[k] \in {"on", "off"}

\* C21 (toggle semantics, as claimed): the write toggle_device makes to the
\* store for a request with the action "toggle" turns the stored state of
\* the device into its opposite, and the lock the request then sets holds
\* that same state.
C21_ToggleSemantics ==
    [][/\ (req.pc = "store" /\ req' # req /\ req.action = "toggle") =>
            last_decision'[req.dev] = Opposite(last_decision[req.dev])
       /\ (req.pc = "lock" /\ req' # req /\ req.action = "toggle") =>
            manual_lock'[req.dev].state = last_decision[req.dev]]_vars

\* no tick, no manual request and no release thread is at work
Quiet ==
    /\ tick.pc = "sleep"
    /\ req.pc = "idle"
    /\ \A r \in releases : r.pc = "sleep"

\* C22 (store/effector agreement, as claimed): whenever no tick, manual
\* request or release thread is at work, the stored state of the fan and of
\* the light is what the last effector call for the device asked for,
\* "off" when there was none.
C22_StoreEffectorAgreement ==
    Quiet => \A d \in Continuous : last_decision[d] = power[d]

\* C23 (publisher convergence): if from some moment on the store keeps one
\* contents and the subscriber stays connected, then from some moment on
\* the last message sent to the subscriber is that contents.
C23_PublisherConvergence ==
    \A S \in Decisions :
      <>[](last_decision = S /\ ws.pc # "closed") => <>[](ws.out = <<S>>)

\* the store has left its initial contents, no writer is at work, and the
\* subscriber, about to poll again, has got the store as it is
C23_Witness ==
    /\ last_decision # InitLastDecision
    /\ req.pc = "idle" /\ RunCount = 0
    /\ ws.pc = "poll"
    /\ ws.last_sent = <<last_decision>>
    /\ ws.out = <<last_decision>>

====
